---- MODULE Spec2Model ----
(***************************************************************************)
(* Model of src/zwe.py: the TE internet usage monitor.  One TEMonitor      *)
(* object is created by main(), authenticated once by initialize() and     *)
(* then driven by the poll loop of run().  The coroutine's position is pc; *)
(* the upstream service, the notifier, the metrics port and the SIGINT     *)
(* signal are the environment, chosen nondeterministically.                *)
(*                                                                         *)
(* Runtime semantics assumed (CPython >= 3.8, asyncio.run):                *)
(*  - asyncio.CancelledError and SystemExit derive from BaseException, so  *)
(*    no "except Exception" clause of the program catches them;            *)
(*  - handle_interrupt raises SystemExit(0) in the main thread; the event  *)
(*    loop stops, asyncio.run cancels the main task, and the task unwinds  *)
(*    from the await it is suspended at.                                   *)
(* The ratelimit decorator only delays a call; it changes no state.        *)
(***************************************************************************)
EXTENDS Integers, Sequences, FiniteSets, TLC

VARIABLES
    pc,                 \* position of the main coroutine
    session,            \* self.session: "none" | "open" | "closed"
    csrf_token,         \* self.csrf_token
    subscriber_id,      \* self.subscriber_id
    last_health_check,  \* self.last_health_check (seconds)
    is_healthy,         \* self.is_healthy
    now,                \* datetime.now() (seconds since construction)
    queries,            \* QUERY_COUNTER
    errors,             \* ERROR_COUNTER
    usage_gauge,        \* DATA_USAGE_GAUGE, in hundredths of a percent
    remaining_gauge,    \* DATA_REMAINING_GAUGE
    message,            \* the last message built by process_data
    data,               \* data['body'] handed to process_data
    idx,                \* index of the item process_data is at
    notify_id,          \* os.getenv('TE_NOTIFY_ID') is set and non-empty
    exc,                \* exception propagating out of run()
    exit_code,          \* process exit status
    interrupted,        \* SIGINT has been delivered
    late_request,       \* history: a request was issued after SIGINT
    tick_log,           \* history: requests of the current tick
    prev_log,           \* history: requests of the previous tick
    last_auth,          \* history: outcome of the last authenticate call
    last_login,         \* history: response the last authenticate call got
    prev_session,       \* history: <<csrf_token, subscriber_id>> before it
    notify_calls        \* history: send_notification calls of this process_data

vars == <<pc, session, csrf_token, subscriber_id, last_health_check,
          is_healthy, now, queries, errors, usage_gauge, remaining_gauge,
          message, data, idx, notify_id, exc, exit_code, interrupted,
          late_request, tick_log, prev_log, last_auth, last_login,
          prev_session, notify_calls>>

(***************************************************************************)
(* Bounds of the model.                                                    *)
(***************************************************************************)
MaxCount == 3       \* cap of each Prometheus counter
MaxSleeps == 4      \* number of inter-tick sleeps explored
MaxRecords == 2     \* longest list of usage records in a query response
MaxTotal == 100     \* largest total/remain explored for the percentage

(***************************************************************************)
(* Program constants.                                                      *)
(***************************************************************************)
HealthCheckInterval == 300
RateLimit == 43200
DaySeconds == 86400

None == "None"
Missing == "missing"

\* status of a request that got no HTTP response (transport error)
NetErr == 0

\* exit status while the process is still running
Running == -1

TokenVals == {"tokA", "tokB"}
SubVals == {"subA", "subB"}

\* What the login endpoint may answer: a 200 with any combination of the two
\* fields present, a 500, or no response at all.
LoginResponses ==
    [status : {200}, token : TokenVals \cup {Missing},
                     sub : SubVals \cup {Missing}]
    \cup {[status |-> 500, token |-> Missing, sub |-> Missing]}
    \cup {[status |-> NetErr, token |-> Missing, sub |-> Missing]}

Records == {[total |-> 0, remain |-> 0],
            [total |-> 100, remain |-> 25],
            [total |-> 32, remain |-> 1]}

RECURSIVE SeqsUpTo(_, _)
SeqsUpTo(S, n) ==
    IF n = 0 THEN {<<>>}
    ELSE LET shorter == SeqsUpTo(S, n - 1)
         IN  shorter \cup {Append(s, x) : s \in {t \in shorter : Len(t) = n - 1}, x \in S}

Bodies == SeqsUpTo(Records, MaxRecords)

QueryResponses ==
    [status : {200}, body : Bodies]
    \cup {[status |-> 500, body |-> <<>>], [status |-> NetErr, body |-> <<>>]}

\* response.raise_for_status(): a transport error raises before it, a status
\* of 400 and above raises in it.
RaiseForStatusOK(r) == r.status # NetErr /\ r.status < 400


(***************************************************************************)
(* process_data's arithmetic and formatting.                               *)
(***************************************************************************)
Abs(n) == IF n < 0 THEN 0 - n ELSE n

\* round(x, 2) of x = num/den*100, as an integer count of hundredths.  Python
\* rounds the double to the nearest hundredth, ties to even; for den < 160 the
\* double is close enough to the rational that this is the exact rational
\* rounding (the ties are den = 32, 64, 96, 128, which doubles hold exactly).
RoundHundredths(num, den) ==
    LET a == Abs(num) * 10000
        q == a \div den
        r == a % den
        up == 2 * r > den \/ (2 * r = den /\ q % 2 = 1)
        h == IF up THEN q + 1 ELSE q
    IN  IF num < 0 THEN 0 - h ELSE h

\* Faulty variant of UsedPercentage: the remaining share instead of the used one.
UsedPercentage_Remaining(total, remain) == RoundHundredths(remain, total)

\* used_percentage = round(((total - remain) / total) * 100, 2)   (line 160)
\* total = 0 raises ZeroDivisionError: the caller tests DivisionRaises first.
UsedPercentage(total, remain) == RoundHundredths(total - remain, total)

DivisionRaises(total) == total = 0

DigitChars == <<"0", "1", "2", "3", "4", "5", "6", "7", "8", "9">>

\* str() of a non-negative int
RECURSIVE NatStr(_)
NatStr(n) == IF n < 10 THEN DigitChars[n + 1]
             ELSE NatStr(n \div 10) \o DigitChars[(n % 10) + 1]

IntStr(n) == IF n < 0 THEN "-" \o NatStr(0 - n) ELSE NatStr(n)

\* repr() of a float holding h hundredths: the shortest decimal, with at
\* least one digit after the point (7500 -> "75.0", 9688 -> "96.88").
FloatStr(h) ==
    LET a == Abs(h)
        whole == a \div 100
        frac == a % 100
        sign == IF h < 0 THEN "-" ELSE ""
    IN  sign \o NatStr(whole) \o "." \o
        (IF frac % 10 = 0 THEN DigitChars[(frac \div 10) + 1]
         ELSE DigitChars[(frac \div 10) + 1] \o DigitChars[(frac % 10) + 1])

\* message = f"{used_percentage}%, {remain} GB remaining."        (line 165)
Message(used, remain) ==
    FloatStr(used) \o "%, " \o IntStr(remain) \o " GB remaining."

\* (datetime.now() - self.last_health_check).seconds >= health_check_interval
\* timedelta.seconds is the seconds part only: whole days are dropped.
TimedeltaSeconds(d) == d % DaySeconds

HealthCheckDue == TimedeltaSeconds(now - last_health_check) >= HealthCheckInterval


(***************************************************************************)
(* TEMonitor.authenticate (lines 96-124), as a function of the response.   *)
(***************************************************************************)
\* data['body']['token'] can be read
HasToken(r) == RaiseForStatusOK(r) /\ r.token # Missing

\* the whole try block runs through: both fields read, no exception
AuthSucceeds(r) == HasToken(r) /\ r.sub # Missing

\* line 117 assigns as soon as the token is read, before line 118 can raise
TokenAfter(r, old) == IF HasToken(r) THEN r.token ELSE old

\* Faulty variant of SubAfter: the subscriber id is kept once it has been set.
SubAfter_FirstLoginOnly(r, old) ==
    IF AuthSucceeds(r) /\ old = None THEN r.sub ELSE old

\* line 118 assigns only when line 117 did not raise
SubAfter(r, old) == IF AuthSucceeds(r) THEN r.sub ELSE old

\* The state change of one authenticate call that got response r.
Authenticate(r) ==
    /\ AuthSucceeds(r) \/ errors < MaxCount
    /\ csrf_token' = TokenAfter(r, csrf_token)
    /\ subscriber_id' = SubAfter(r, subscriber_id)
    /\ errors' = IF AuthSucceeds(r) THEN errors ELSE errors + 1
    /\ last_auth' = IF AuthSucceeds(r) THEN "ok" ELSE "failed"
    /\ last_login' = r
    /\ prev_session' = <<csrf_token, subscriber_id>>
    /\ late_request' = (late_request \/ interrupted)

(***************************************************************************)
(* The state after main() has built the monitor (lines 280-283): SIGINT    *)
(* handler installed, TEMonitor.__init__ run (lines 76-84), counters and   *)
(* gauges at zero.                                                         *)
(***************************************************************************)
NoLogin == [status |-> NetErr, token |-> Missing, sub |-> Missing]

Init ==
    /\ pc = "main"
    /\ session = "none"
    /\ csrf_token = None
    /\ subscriber_id = None
    /\ last_health_check = 0
    /\ is_healthy = TRUE
    /\ now = 0
    /\ queries = 0
    /\ errors = 0
    /\ usage_gauge = 0
    /\ remaining_gauge = 0
    /\ message = ""
    /\ data = <<>>
    /\ idx = 0
    /\ notify_id \in BOOLEAN
    /\ exc = None
    /\ exit_code = Running
    /\ interrupted = FALSE
    /\ late_request = FALSE
    /\ tick_log = <<>>
    /\ prev_log = <<>>
    /\ last_auth = "none"
    /\ last_login = NoLogin
    /\ prev_session = <<None, None>>
    /\ notify_calls = 0

\* initialize(), line 88: open the HTTP session.
Initialize ==
    /\ pc = "main"
    /\ session' = "open"
    /\ pc' = "init_auth"
    /\ UNCHANGED <<csrf_token, subscriber_id, last_health_check, is_healthy,
                   now, queries, errors, usage_gauge, remaining_gauge, message,
                   data, idx, notify_id, exc, exit_code, interrupted,
                   late_request, tick_log, prev_log, last_auth, last_login,
                   prev_session, notify_calls>>

\* Faulty variant of StartupAuthenticate: the failure is swallowed and main()
\* goes on to run().
StartupAuthenticate_IgnoresFailure ==
    /\ pc = "init_auth"
    /\ \E r \in LoginResponses :
         /\ Authenticate(r)
         /\ pc' = "run"
    /\ UNCHANGED <<session, last_health_check, is_healthy, now, queries,
                   usage_gauge, remaining_gauge, message, data, idx, notify_id,
                   exc, exit_code, interrupted, tick_log, prev_log,
                   notify_calls>>

\* initialize(), line 89: the startup authentication.  Its exception leaves
\* initialize() and main() (lines 284-285): the process ends with a traceback,
\* run() and its cleanup are never entered.
StartupAuthenticate ==
    /\ pc = "init_auth"
    /\ \E r \in LoginResponses :
         /\ Authenticate(r)
         /\ pc' = IF AuthSucceeds(r) THEN "run" ELSE "exited"
         /\ exit_code' = IF AuthSucceeds(r) THEN exit_code ELSE 1
         /\ exc' = IF AuthSucceeds(r) THEN exc ELSE "Exception"
    /\ UNCHANGED <<session, last_health_check, is_healthy, now, queries,
                   usage_gauge, remaining_gauge, message, data, idx, notify_id,
                   interrupted, tick_log, prev_log, notify_calls>>

\* run(), line 203: start_http_server.  It is inside the outer try, whose only
\* handler is for CancelledError: an OSError (port in use) goes to finally.
StartMetricsServer ==
    /\ pc = "run"
    /\ \E ok \in BOOLEAN :
         /\ pc' = IF ok THEN "query" ELSE "cleanup"
         /\ exc' = IF ok THEN exc ELSE "Exception"
    /\ UNCHANGED <<session, csrf_token, subscriber_id, last_health_check,
                   is_healthy, now, queries, errors, usage_gauge,
                   remaining_gauge, message, data, idx, notify_id, exit_code,
                   interrupted, late_request, tick_log, prev_log, last_auth,
                   last_login, prev_session, notify_calls>>

\* query_data (lines 126-152): the counters after a call that got response r.
QueryCounter(r, q) == IF RaiseForStatusOK(r) THEN q + 1 ELSE q

\* Faulty variant of ErrorCounter: a failure counted in query_data and again by its
\* caller.
ErrorCounter_CountedTwice(r, e) == IF RaiseForStatusOK(r) THEN e ELSE e + 2

ErrorCounter(r, e) == IF RaiseForStatusOK(r) THEN e ELSE e + 1

\* Faulty variant of QueryData: a failed query discards the token it used.
QueryData_DropsToken(r) ==
    /\ IF RaiseForStatusOK(r) THEN queries < MaxCount ELSE errors < MaxCount
    /\ queries' = QueryCounter(r, queries)
    /\ errors' = ErrorCounter(r, errors)
    /\ late_request' = (late_request \/ interrupted)
    /\ csrf_token' = IF RaiseForStatusOK(r) THEN csrf_token ELSE None
    /\ UNCHANGED <<session, subscriber_id>>

\* query_data (lines 126-152): what one call that got response r changes.  It
\* reads self.session, self.csrf_token and self.subscriber_id and assigns
\* none of them.
QueryData(r) ==
    /\ IF RaiseForStatusOK(r) THEN queries < MaxCount ELSE errors < MaxCount
    /\ queries' = QueryCounter(r, queries)
    /\ errors' = ErrorCounter(r, errors)
    /\ late_request' = (late_request \/ interrupted)
    /\ UNCHANGED <<session, csrf_token, subscriber_id>>

\* run(), lines 207 and 214-217: the tick's query.  On failure the handler
\* logs, and re-authenticates only when is_healthy is already false.
MainQuery ==
    /\ pc = "query"
    /\ \E r \in QueryResponses :
         /\ QueryData(r)
         /\ IF RaiseForStatusOK(r)
            THEN /\ data' = r.body
                 /\ idx' = 1
                 /\ pc' = "process"
                 /\ tick_log' = Append(tick_log, "query_ok")
            ELSE /\ UNCHANGED <<data, idx>>
                 /\ pc' = IF ~is_healthy THEN "reauth" ELSE "sleep"
                 /\ tick_log' = Append(tick_log, "query_fail")
    /\ notify_calls' = 0
    /\ UNCHANGED <<last_health_check, is_healthy, now, usage_gauge,
                   remaining_gauge, message, notify_id, exc, exit_code,
                   interrupted, prev_log, last_auth, last_login, prev_session>>


\* process_data, lines 157-168: one pass of the for loop over data['body'].
\* A ZeroDivisionError in line 160 is caught by the except around the whole
\* loop (lines 171-173): the error is counted and process_data returns.
ProcessItem ==
    /\ pc = "process"
    /\ idx <= Len(data)
    /\ LET item == data[idx]
       IN  IF DivisionRaises(item.total)
           THEN /\ errors < MaxCount
                /\ errors' = errors + 1
                /\ pc' = "processed"
                /\ UNCHANGED <<usage_gauge, remaining_gauge, message, idx>>
           ELSE /\ usage_gauge' = UsedPercentage(item.total, item.remain)
                /\ remaining_gauge' = item.remain
                /\ message' = Message(UsedPercentage(item.total, item.remain),
                                      item.remain)
                /\ IF notify_id
                   THEN pc' = "notify" /\ idx' = idx
                   ELSE pc' = "process" /\ idx' = idx + 1
                /\ errors' = errors
    /\ UNCHANGED <<session, csrf_token, subscriber_id, last_health_check,
                   is_healthy, now, queries, data, notify_id, exc, exit_code,
                   interrupted, late_request, tick_log, prev_log, last_auth,
                   last_login, prev_session, notify_calls>>

\* Faulty variant of SendNotification: the failure is not caught in
\* send_notification; it reaches process_data's except clause, which counts
\* it and ends the loop.
SendNotification_FailureAborts ==
    /\ pc = "notify"
    /\ \E ok \in BOOLEAN :
         /\ ok \/ errors < MaxCount
         /\ errors' = IF ok THEN errors ELSE errors + 1
         /\ idx' = IF ok THEN idx + 1 ELSE idx
         /\ pc' = IF ok THEN "process" ELSE "processed"
    /\ notify_calls' = notify_calls + 1
    /\ UNCHANGED <<session, csrf_token, subscriber_id, last_health_check,
                   is_healthy, now, queries, usage_gauge, remaining_gauge,
                   message, data, notify_id, exc, exit_code, interrupted,
                   late_request, tick_log, prev_log, last_auth, last_login,
                   prev_session>>

\* send_notification (lines 175-187), awaited from line 169: the notify
\* subprocess runs, or fails to start; the failure is counted and swallowed.
SendNotification ==
    /\ pc = "notify"
    /\ \E ok \in BOOLEAN :
         /\ ok \/ errors < MaxCount
         /\ errors' = IF ok THEN errors ELSE errors + 1
    /\ notify_calls' = notify_calls + 1
    /\ idx' = idx + 1
    /\ pc' = "process"
    /\ UNCHANGED <<session, csrf_token, subscriber_id, last_health_check,
                   is_healthy, now, queries, usage_gauge, remaining_gauge,
                   message, data, notify_id, exc, exit_code, interrupted,
                   late_request, tick_log, prev_log, last_auth, last_login,
                   prev_session>>

\* process_data: the for loop is exhausted, the call returns to line 208.
ProcessReturn ==
    /\ pc = "process"
    /\ idx > Len(data)
    /\ pc' = "processed"
    /\ UNCHANGED <<session, csrf_token, subscriber_id, last_health_check,
                   is_healthy, now, queries, errors, usage_gauge,
                   remaining_gauge, message, data, idx, notify_id, exc,
                   exit_code, interrupted, late_request, tick_log, prev_log,
                   last_auth, last_login, prev_session, notify_calls>>

\* run(), line 211: is the periodic health check due?
HealthGate ==
    /\ pc = "processed"
    /\ pc' = IF HealthCheckDue THEN "health" ELSE "sleep"
    /\ data' = <<>>
    /\ idx' = 0
    /\ notify_calls' = 0
    /\ UNCHANGED <<session, csrf_token, subscriber_id, last_health_check,
                   is_healthy, now, queries, errors, usage_gauge,
                   remaining_gauge, message, notify_id, exc, exit_code,
                   interrupted, late_request, tick_log, prev_log, last_auth,
                   last_login, prev_session>>

\* Faulty variant of HealthCheck: a failed probe is tried again at once.
HealthCheck_RetriesProbe ==
    /\ pc = "health"
    /\ \E r \in QueryResponses :
         /\ QueryData(r)
         /\ is_healthy' = RaiseForStatusOK(r)
         /\ last_health_check' = IF RaiseForStatusOK(r) THEN now
                                 ELSE last_health_check
         /\ tick_log' = Append(tick_log, IF RaiseForStatusOK(r) THEN "probe_ok"
                                         ELSE "probe_fail")
         /\ pc' = IF RaiseForStatusOK(r) THEN "sleep" ELSE "health"
    /\ UNCHANGED <<now, usage_gauge,
                   remaining_gauge, message, data, idx, notify_id, exc,
                   exit_code, interrupted, prev_log, last_auth, last_login,
                   prev_session, notify_calls>>

\* health_check (lines 189-197): a second query_data call whose result is
\* dropped; only here is is_healthy written.
HealthCheck ==
    /\ pc = "health"
    /\ \E r \in QueryResponses :
         /\ QueryData(r)
         /\ is_healthy' = RaiseForStatusOK(r)
         /\ last_health_check' = IF RaiseForStatusOK(r) THEN now
                                 ELSE last_health_check
         /\ tick_log' = Append(tick_log, IF RaiseForStatusOK(r) THEN "probe_ok"
                                         ELSE "probe_fail")
    /\ pc' = "sleep"
    /\ UNCHANGED <<now, usage_gauge,
                   remaining_gauge, message, data, idx, notify_id, exc,
                   exit_code, interrupted, prev_log, last_auth, last_login,
                   prev_session, notify_calls>>

\* Faulty variant of ReAuthenticate: a successful login marks the monitor
\* healthy again.
ReAuthenticate_RestoresHealth ==
    /\ pc = "reauth"
    /\ \E r \in LoginResponses :
         /\ Authenticate(r)
         /\ pc' = IF AuthSucceeds(r) THEN "sleep" ELSE "cleanup"
         /\ exc' = IF AuthSucceeds(r) THEN exc ELSE "Exception"
         /\ is_healthy' = (is_healthy \/ AuthSucceeds(r))
         /\ tick_log' = Append(tick_log, IF AuthSucceeds(r) THEN "auth_ok"
                                         ELSE "auth_fail")
    /\ UNCHANGED <<session, last_health_check, now, queries,
                   usage_gauge, remaining_gauge, message, data, idx, notify_id,
                   exit_code, interrupted, prev_log, notify_calls>>

\* Faulty variant of ReAuthenticate: after a successful login the loop goes
\* back to the query without sleeping.
ReAuthenticate_RetriesAtOnce ==
    /\ pc = "reauth"
    /\ \E r \in LoginResponses :
         /\ Authenticate(r)
         /\ pc' = IF AuthSucceeds(r) THEN "query" ELSE "cleanup"
         /\ exc' = IF AuthSucceeds(r) THEN exc ELSE "Exception"
         /\ tick_log' = Append(tick_log, IF AuthSucceeds(r) THEN "auth_ok"
                                         ELSE "auth_fail")
    /\ UNCHANGED <<session, last_health_check, is_healthy, now, queries,
                   usage_gauge, remaining_gauge, message, data, idx, notify_id,
                   exit_code, interrupted, prev_log, notify_calls>>

\* run(), line 217: authenticate() called from inside the except handler.  An
\* exception raised there is not handled by that try statement any more; the
\* outer try catches only CancelledError, so it goes through finally
\* (cleanup) and out of run().
ReAuthenticate ==
    /\ pc = "reauth"
    /\ \E r \in LoginResponses :
         /\ Authenticate(r)
         /\ pc' = IF AuthSucceeds(r) THEN "sleep" ELSE "cleanup"
         /\ exc' = IF AuthSucceeds(r) THEN exc ELSE "Exception"
         /\ tick_log' = Append(tick_log, IF AuthSucceeds(r) THEN "auth_ok"
                                         ELSE "auth_fail")
    /\ UNCHANGED <<session, last_health_check, is_healthy, now, queries,
                   usage_gauge, remaining_gauge, message, data, idx, notify_id,
                   exit_code, interrupted, prev_log, notify_calls>>

\* run(), line 219: await asyncio.sleep(self.config.rate_limit); the next
\* tick starts when it returns.
Sleep ==
    /\ pc = "sleep"
    /\ now < MaxSleeps * RateLimit
    /\ now' = now + RateLimit
    /\ pc' = "query"
    /\ prev_log' = tick_log
    /\ tick_log' = <<>>
    /\ UNCHANGED <<session, csrf_token, subscriber_id, last_health_check,
                   is_healthy, queries, errors, usage_gauge, remaining_gauge,
                   message, data, idx, notify_id, exc, exit_code, interrupted,
                   late_request, last_auth, last_login, prev_session,
                   notify_calls>>

\* Positions inside run()'s outer try statement (lines 201-220).
InRun == {"run", "query", "process", "notify", "processed", "health",
          "reauth", "sleep"}

\* Faulty variant of AfterInterrupt: run() has no finally clause.
AfterInterrupt_NoFinally(p) == "exited"

\* Where the coroutine is once SIGINT has been handled at position p.
\* Inside run() the unwinding (CancelledError from the await, or SystemExit
\* raised in place) reaches the finally clause; in main() or initialize()
\* nothing catches it and the process ends.
AfterInterrupt(p) == IF p \in InRun THEN "cleanup" ELSE "exited"

\* handle_interrupt (lines 226-229): SIGINT, sys.exit(0).  A signal arriving
\* while cleanup itself runs is not modelled.
Interrupt ==
    /\ pc \in InRun \cup {"main", "init_auth"}
    /\ interrupted' = TRUE
    /\ exc' = "SystemExit"
    /\ pc' = AfterInterrupt(pc)
    /\ exit_code' = IF AfterInterrupt(pc) = "exited" THEN 0 ELSE exit_code
    /\ UNCHANGED <<session, csrf_token, subscriber_id, last_health_check,
                   is_healthy, now, queries, errors, usage_gauge,
                   remaining_gauge, message, data, idx, notify_id,
                   late_request, tick_log, prev_log, last_auth, last_login,
                   prev_session, notify_calls>>

\* cleanup (lines 91-94) from run()'s finally clause, then the process ends:
\* status 0 for SystemExit(0), 1 for an uncaught exception.
SessionAfterCleanup(s) == IF s = "open" THEN "closed" ELSE s

Cleanup ==
    /\ pc = "cleanup"
    /\ session' = SessionAfterCleanup(session)
    /\ exit_code' = IF exc = "SystemExit" THEN 0 ELSE 1
    /\ pc' = "exited"
    /\ UNCHANGED <<csrf_token, subscriber_id, last_health_check, is_healthy,
                   now, queries, errors, usage_gauge, remaining_gauge, message,
                   data, idx, notify_id, exc, interrupted, late_request,
                   tick_log, prev_log, last_auth, last_login, prev_session,
                   notify_calls>>

Next ==
    \/ Initialize
    \/ StartupAuthenticate
    \/ StartMetricsServer
    \/ MainQuery
    \/ ProcessItem
    \/ SendNotification
    \/ ProcessReturn
    \/ HealthGate
    \/ HealthCheck
    \/ ReAuthenticate
    \/ Sleep
    \/ Interrupt
    \/ Cleanup

Spec == Init /\ [][Next]_vars

TypeOK ==
    /\ pc \in InRun \cup {"main", "init_auth", "cleanup", "exited"}
    /\ session \in {"none", "open", "closed"}
    /\ csrf_token \in TokenVals \cup {None}
    /\ subscriber_id \in SubVals \cup {None}
    /\ is_healthy \in BOOLEAN
    /\ queries \in 0..MaxCount
    /\ errors \in 0..MaxCount
    /\ data \in Bodies
    /\ exit_code \in {Running, 0, 1}


(***************************************************************************)
(* process_data on one record, for every total and remain up to MaxTotal:  *)
(* the monitor is authenticated, the first query of the run has just       *)
(* returned a response with a single record.                               *)
(***************************************************************************)
InitCalc ==
    /\ pc = "process"
    /\ session = "open"
    /\ csrf_token = "tokA"
    /\ subscriber_id = "subA"
    /\ last_health_check = 0
    /\ is_healthy = TRUE
    /\ now = 0
    /\ queries = 1
    /\ errors = 0
    /\ usage_gauge = 0
    /\ remaining_gauge = 0
    /\ message = ""
    /\ \E t \in 0..MaxTotal, r \in 0..MaxTotal :
         data = <<[total |-> t, remain |-> r]>>
    /\ idx = 1
    /\ notify_id \in BOOLEAN
    /\ exc = None
    /\ exit_code = Running
    /\ interrupted = FALSE
    /\ late_request = FALSE
    /\ tick_log = <<"query_ok">>
    /\ prev_log = <<>>
    /\ last_auth = "ok"
    /\ last_login = [status |-> 200, token |-> "tokA", sub |-> "subA"]
    /\ prev_session = <<None, None>>
    /\ notify_calls = 0

NextCalc ==
    \/ ProcessItem
    \/ SendNotification
    \/ ProcessReturn

SpecCalc == InitCalc /\ [][NextCalc]_vars

(***************************************************************************)
(* The claims.                                                             *)
(***************************************************************************)
InLog(e, log) == \E i \in 1..Len(log) : log[i] = e

HasZeroTotal(body) == \E i \in 1..Len(body) : body[i].total = 0

\* C1: whenever the main-loop query fails in a tick, is_healthy is false
\* after that tick (at its sleep), and in the next tick authenticate is
\* invoked before the query is attempted again.
C1_QueryFailureMarksUnhealthy ==
    /\ (pc = "sleep" /\ InLog("query_fail", tick_log)) => ~is_healthy
    /\ (InLog("query_fail", prev_log) /\ tick_log # <<>>)
         => tick_log[1] \in {"auth_ok", "auth_fail"}

\* C2: a failure of authenticate during re-authentication never terminates
\* the process: it is caught in that tick and the loop goes to its sleep.
C2_ReauthFailureNotFatal ==
    (InLog("auth_fail", tick_log) /\ ~interrupted) => pc = "sleep"

\* C3: query failure, successful re-authentication, then a successful query
\* in the next tick: at the end of that tick is_healthy is true and all of
\* the tick's records were processed into the gauges (responses holding a
\* record with total = 0, the subject of C7, and ticks whose health probe
\* itself fails are set aside here: nothing fails in the tick).
RecoveredTick ==
    /\ prev_log = <<"query_fail", "auth_ok">>
    /\ tick_log # <<>>
    /\ tick_log[1] = "query_ok"

C3_RecoveryRestoresHealth ==
    /\ (RecoveredTick /\ pc = "sleep" /\ ~InLog("probe_fail", tick_log))
         => is_healthy
    /\ (RecoveredTick /\ pc = "processed" /\ ~HasZeroTotal(data)) =>
          /\ idx = Len(data) + 1
          /\ Len(data) > 0 => remaining_gauge = data[Len(data)].remain

\* C4: (csrf_token, subscriber_id) is both unset or both from the same
\* successful login response; a failing authenticate call leaves both fields
\* as they were before the call.
C4_SessionNeverPartial ==
    /\ (csrf_token = None) <=> (subscriber_id = None)
    /\ last_auth = "none" => csrf_token = None /\ subscriber_id = None
    /\ last_auth = "ok" => /\ csrf_token = last_login.token
                           /\ subscriber_id = last_login.sub
    /\ last_auth = "failed" => <<csrf_token, subscriber_id>> = prev_session

\* C5: an interrupt at any point after the HTTP session was opened ends the
\* process with exit code 0, the session closed by cleanup, and no login or
\* query request issued after the interrupt.
C5_InterruptClosesSession ==
    (interrupted /\ pc = "exited" /\ session # "none") =>
        /\ exit_code = 0
        /\ session = "closed"
        /\ ~late_request

\* C6: when process_data returns, send_notification was invoked once per
\* record of the list if a notifier is configured, and never if not.
C6_OneNotificationPerRecord ==
    pc = "processed" =>
        notify_calls = (IF notify_id THEN Len(data) ELSE 0)

\* C7: a record with total = 0 raises no error: process_data sets the gauges
\* for it and goes on through the records that follow it.
C7_ZeroTotalDoesNotRaise ==
    (pc = "processed" /\ HasZeroTotal(data)) =>
        /\ idx = Len(data) + 1
        /\ remaining_gauge = data[Len(data)].remain

\* C8: after an authenticate call that got a 200 response holding body.token
\* and body.subscriber.subscriberId, the call has succeeded and csrf_token
\* and subscriber_id are exactly the two values of that response.
C8_ValidLoginSetsBoth ==
    (/\ last_auth # "none"
     /\ last_login.status = 200
     /\ last_login.token \in TokenVals
     /\ last_login.sub \in SubVals)
    => /\ last_auth = "ok"
       /\ csrf_token = last_login.token
       /\ subscriber_id = last_login.sub

C8_Witness ==
    /\ last_auth = "ok"
    /\ InLog("auth_ok", tick_log)
    /\ prev_session[1] \in TokenVals \ {csrf_token}
    /\ prev_session[2] \in SubVals \ {subscriber_id}

\* C9: for total > 0 and 0 <= remain <= total the percentage process_data
\* sets is within [0, 100] (and within half a hundredth of the exact
\* quotient); for total = 100, remain = 25 it is 75.0 and the message is
\* "75.0%, 25 GB remaining.".
RecordProcessed == pc = "notify" \/ idx = 2

C9_PercentageInRange ==
    (/\ RecordProcessed
     /\ data[1].total > 0
     /\ data[1].remain <= data[1].total)
    => /\ usage_gauge >= 0
       /\ usage_gauge <= 10000
       /\ 2 * Abs(usage_gauge * data[1].total
                  - (data[1].total - data[1].remain) * 10000) <= data[1].total
       /\ message = Message(usage_gauge, data[1].remain)
       /\ (data[1].total = 100 /\ data[1].remain = 25) =>
             /\ usage_gauge = 7500
             /\ message = "75.0%, 25 GB remaining."

C9_Witness ==
    /\ RecordProcessed
    /\ data[1] = [total |-> 100, remain |-> 25]
    /\ message = "75.0%, 25 GB remaining."

\* C10: in every step, the query counter and the error counter each stay
\* the same or grow by exactly one.
C10_CountersMonotonic ==
    [][/\ queries' \in {queries, queries + 1}
       /\ errors' \in {errors, errors + 1}]_vars

C10_Witness ==
    /\ pc = "exited"
    /\ session = "closed"
    /\ queries >= 2
    /\ errors >= 2


\* C11: a query_data call, successful or failed, from the main loop or from
\* health_check, leaves csrf_token, subscriber_id and the session unchanged.
C11_QueryLeavesSession ==
    [][(/\ pc \in {"query", "health"}
        /\ queries' # queries \/ errors' # errors)
       => UNCHANGED <<csrf_token, subscriber_id, session>>]_vars

C11_Witness ==
    /\ InLog("probe_fail", tick_log)
    /\ InLog("query_fail", prev_log)
    /\ csrf_token \in TokenVals
    /\ subscriber_id \in SubVals
    /\ session = "open"


\* C12: a main-loop query is attempted only when nothing was requested since
\* the last sleep; the loop comes back to the query only through the sleep
\* (the first tick comes from the start of run), and that sleep lasts the
\* configured interval: one sleep between any two query attempts, whatever
\* the tick did.
C12_OneSleepPerTick ==
    [][/\ (pc = "query" /\ pc' \in {"process", "reauth", "sleep"})
            => tick_log = <<>>
       /\ (pc' = "query" /\ pc # "query") => pc \in {"sleep", "run"}
       /\ (pc = "sleep" /\ pc' = "query") => now' = now + RateLimit]_vars

C12_Witness ==
    /\ pc = "query"
    /\ prev_log = <<"query_fail", "auth_ok">>
    /\ tick_log = <<>>
    /\ now >= 3 * RateLimit

\* C13: within a tick no query request follows a failed query or a failed
\* probe, and authenticate is invoked at most once.
QueryEvents == {"query_ok", "query_fail", "probe_ok", "probe_fail"}

AuthEvents == {"auth_ok", "auth_fail"}

C13_NoRetryWithinTick ==
    /\ \A i, j \in 1..Len(tick_log) :
          (i < j /\ tick_log[i] \in {"query_fail", "probe_fail"})
              => tick_log[j] \notin QueryEvents
    /\ Cardinality({i \in 1..Len(tick_log) : tick_log[i] \in AuthEvents}) <= 1

C13_Witness ==
    /\ pc = "sleep"
    /\ tick_log = <<"query_fail", "auth_ok">>


\* C14: an interrupt never cuts a tick short: shutdown begins only between
\* ticks, never at a position where the tick has issued a request and has
\* not yet reached its sleep.
MidTick == pc \in InRun /\ tick_log # <<>> /\ pc # "sleep"

C14_InterruptOnlyBetweenTicks ==
    [][(~interrupted /\ interrupted') => ~MidTick]_vars

\* C15: a probe is run only in a tick whose query succeeded, and, once
\* process_data has returned, exactly when at least health_check_interval
\* seconds have passed since the last probe.  (Stated for the case that the
\* last probe succeeded, where last_health_check is its time.)
C15_ProbeExactlyWhenDue ==
    [][/\ (InLog("probe_ok", tick_log) \/ InLog("probe_fail", tick_log))
            => tick_log[1] = "query_ok"
       /\ (/\ pc = "processed"
           /\ pc' \in {"health", "sleep"}
           /\ is_healthy
           /\ last_health_check > 0)
            => (pc' = "health"
                  <=> now - last_health_check >= HealthCheckInterval)]_vars


\* C16: when process_data returns from a response with one or more records,
\* both gauges hold the values of the last record of the response.
C16_GaugesHoldLastRecord ==
    (pc = "processed" /\ Len(data) >= 1) =>
        LET last == data[Len(data)]
        IN  /\ remaining_gauge = last.remain
            /\ last.total # 0 =>
                 usage_gauge = UsedPercentage(last.total, last.remain)

\* C17: a failed notification is counted and the loop goes on with the next
\* record, is_healthy, the response and the gauges untouched; whatever the
\* notifier did, a response without a zero total is processed to its end
\* (every record in the gauges, one notification attempt per record when a
\* notifier is configured) and the tick goes on to line 211.
C17_NotificationFailureNotFatal ==
    [][/\ (pc = "notify" /\ errors' = errors + 1) =>
             /\ pc' = "process"
             /\ idx' = idx + 1
             /\ notify_calls' = notify_calls + 1
             /\ UNCHANGED <<is_healthy, data, usage_gauge, remaining_gauge,
                            tick_log, exc>>
       /\ (pc' = "processed" /\ ~HasZeroTotal(data')) =>
             /\ idx' = Len(data') + 1
             /\ notify_calls' = (IF notify_id THEN Len(data') ELSE 0)
             /\ Len(data') > 0 =>
                  remaining_gauge' = data'[Len(data')].remain]_vars

C17_Witness ==
    /\ pc = "processed"
    /\ prev_log = <<>>
    /\ tick_log = <<"query_ok">>
    /\ last_auth = "ok"
    /\ errors = 1
    /\ Len(data) = 2
    /\ idx = 3
    /\ notify_calls = 2


\* C18: a query is issued only after an authenticate call has succeeded, so
\* with a token and a subscriber id set; a failed startup authentication
\* ends the process with no query issued and the poll loop never entered.
StartupFailed == last_auth = "failed" /\ ~InLog("auth_fail", tick_log)

InPollLoop == pc \in InRun \ {"run"}

RunEntered == last_auth = "ok" \/ InLog("auth_fail", tick_log)

C19_RunAlwaysCleansUp ==
    /\ (pc = "exited" /\ RunEntered) => session = "closed"
    /\ session = "closed" => pc = "exited"
    /\ ~late_request

C19_Witness ==
    /\ pc = "exited"
    /\ InLog("auth_fail", tick_log)
    /\ session = "closed"
    /\ exit_code = 1

\* C20: is_healthy changes only in health_check (true after a successful
\* probe, false after a failed one); a failed main-loop query leaves it and
\* leads to authenticate exactly when it is false; authenticate after startup
\* is called right after the tick's failed query, with is_healthy false, and
\* leaves it false whatever the outcome.
C20_HealthWrittenOnlyByProbe ==
    [][/\ is_healthy' # is_healthy => pc = "health"
       /\ (pc = "health" /\ pc' = "sleep")
             => (is_healthy' <=> queries' = queries + 1)
       /\ (pc = "query" /\ errors' = errors + 1)
             => /\ is_healthy' = is_healthy
                /\ pc' = "reauth" <=> ~is_healthy
       /\ (pc = "reauth" /\ ~interrupted')
             => /\ tick_log = <<"query_fail">>
                /\ ~is_healthy
                /\ ~is_healthy'
       /\ (InLog("auth_ok", tick_log') \/ InLog("auth_fail", tick_log'))
             => tick_log'[1] = "query_fail"]_vars

C20_Witness ==
    /\ pc = "sleep"
    /\ tick_log = <<"query_fail", "auth_ok">>
    /\ ~is_healthy
    /\ last_auth = "ok"
    /\ queries >= 1

====
